---- MODULE Spec2Model ----
(***************************************************************************)
(* Model of the Claude Relay Service launcher: start.py (mode dispatcher)  *)
(* and scripts/start_utils.py (environment prober, config materializer,    *)
(* process registry).                                                      *)
(*                                                                         *)
(* Text is modelled as a sequence of symbols.  A symbol is one character   *)
(* ("v", ".", "=", a digit, "CR", "LF", "BAD" for a byte that is not valid *)
(* UTF-8) or an opaque run of identifier characters ("REDIS_PORT").        *)
(* An optional value is <<>> (None / file absent) or <<x>>.                *)
(***************************************************************************)
EXTENDS Integers, Sequences, FiniteSets, TLC

VARIABLES
    platform,         \* platform.system(): "posix" or "windows"
    args,             \* argparse namespace: mode, port, daemon, rebuild, action
    pc,               \* position of the invocation in main / start_*_mode
    current_process,  \* ClaudeRelayStarter.current_process: <<>> or <<cmd>>
    child,            \* state of the Popen child: "none", "running", "exited"
    childRc,          \* exit status of the child once it has exited, else -1
    terminateCalls,   \* number of current_process.terminate() calls issued
    steps,            \* log of the checks and commands performed, in order
    exitCode,         \* process exit status, -1 while the process runs
    exitBy,           \* "": running; "return", "sys.exit", "except", "signal"
    envFile,          \* .env
    envExample,       \* .env.example
    configFile,       \* config/config.js
    configExample,    \* config/config.example.js
    dirs,             \* which of logs, data, temp exist
    pidFile,          \* claude-relay-service.pid
    procs,            \* OS process table seen by this user: pid -> state
    startConfigFile,  \* config/start_config.json
    call              \* last library call made and its result (function specs)

vars == <<platform, args, pc, current_process, child, childRc, terminateCalls,
          steps, exitCode, exitBy, envFile, envExample, configFile,
          configExample, dirs, pidFile, procs, startConfigFile, call>>

fileVars == <<envFile, envExample, configFile, configExample, dirs>>
launchVars == <<args, pc, current_process, child, childRc, terminateCalls,
                steps, exitCode, exitBy>>

----------------------------------------------------------------------------
(* Optional values and text helpers                                        *)

\* F(e), with e evaluated once (TLC evaluates a LET definition afresh at
\* each of its uses when it computes ENABLED)
Bind(e, F(_)) == CHOOSE y \in {F(x) : x \in {e}} : TRUE

None == <<>>
Some(x) == <<x>>
IsNone(o) == o = <<>>
Get(o) == o[1]

Whitespace == {" ", "TAB", "CR", "LF"}
Digits == {"0", "1", "2", "3", "4", "5", "6", "7", "8", "9"}

DigitVal(c) ==
    CASE c = "0" -> 0 [] c = "1" -> 1 [] c = "2" -> 2 [] c = "3" -> 3
      [] c = "4" -> 4 [] c = "5" -> 5 [] c = "6" -> 6 [] c = "7" -> 7
      [] c = "8" -> 8 [] c = "9" -> 9

RECURSIVE LStrip(_, _)
\* str.lstrip(chars)
LStrip(s, chars) ==
    IF s # <<>> /\ Head(s) \in chars THEN LStrip(Tail(s), chars) ELSE s

RECURSIVE RStrip(_, _)
\* str.rstrip(chars)
RStrip(s, chars) ==
    IF s # <<>> /\ s[Len(s)] \in chars
    THEN RStrip(SubSeq(s, 1, Len(s) - 1), chars) ELSE s

\* str.strip(): leading and trailing whitespace removed
Strip(s) == RStrip(LStrip(s, Whitespace), Whitespace)

\* str.startswith(p)
StartsWith(s, p) == Len(s) >= Len(p) /\ SubSeq(s, 1, Len(p)) = p

\* index of the first occurrence of symbol c in s, 0 when there is none
FirstIndex(s, c) ==
    IF \E i \in 1..Len(s) : s[i] = c
    THEN CHOOSE i \in 1..Len(s) : s[i] = c /\ \A j \in 1..(i - 1) : s[j] # c
    ELSE 0

\* s.split(c)[0]
SplitHead(s, c) ==
    IF FirstIndex(s, c) = 0 THEN s ELSE SubSeq(s, 1, FirstIndex(s, c) - 1)

\* s.split(c, 1)[1], for s that contains c
SplitRest(s, c) == SubSeq(s, FirstIndex(s, c) + 1, Len(s))

RECURSIVE DecimalValue(_)
DecimalValue(s) ==
    IF s = <<>> THEN 0
    ELSE 10 * DecimalValue(SubSeq(s, 1, Len(s) - 1)) + DigitVal(s[Len(s)])

\* int(s): surrounding whitespace is ignored; anything but a non-empty run
\* of digits raises ValueError
IntParses(s) ==
    \E t \in {Strip(s)} : t # <<>> /\ \A i \in 1..Len(t) : t[i] \in Digits
IntValue(s) == DecimalValue(Strip(s))

RECURSIVE UniversalNewlines(_)
\* text-mode read (newline=None): CR LF and a lone CR both become LF
UniversalNewlines(s) ==
    IF s = <<>> THEN <<>>
    ELSE IF Head(s) = "CR"
         THEN IF Len(s) >= 2 /\ s[2] = "LF"
              THEN <<"LF">> \o UniversalNewlines(SubSeq(s, 3, Len(s)))
              ELSE <<"LF">> \o UniversalNewlines(Tail(s))
         ELSE <<Head(s)>> \o UniversalNewlines(Tail(s))

RECURSIVE PlatformNewlines(_, _)
\* text-mode write (newline=None): LF is written as os.linesep
PlatformNewlines(s, plat) ==
    IF s = <<>> THEN <<>>
    ELSE IF Head(s) = "LF" /\ plat = "windows"
         THEN <<"CR", "LF">> \o PlatformNewlines(Tail(s), plat)
         ELSE <<Head(s)>> \o PlatformNewlines(Tail(s), plat)

\* decoding as UTF-8 raises UnicodeDecodeError on an invalid byte
Decodable(s) == \A i \in 1..Len(s) : s[i] # "BAD"

RECURSIVE SplitLines(_)
\* the lines a text-mode file iterator yields (line ends dropped: the
\* callers strip each line)
SplitLines(s) ==
    IF s = <<>> THEN <<>>
    ELSE IF FirstIndex(s, "LF") = 0 THEN <<s>>
         ELSE <<SubSeq(s, 1, FirstIndex(s, "LF") - 1)>>
              \o SplitLines(SubSeq(s, FirstIndex(s, "LF") + 1, Len(s)))

----------------------------------------------------------------------------
(* scripts/start_utils.py: SystemChecker                                   *)

MinNodeMajor == 18

\* outcome of subprocess.run([tool, '--version'], timeout=10):
\* exc (tool missing, timeout), the exit status and the captured stdout
ToolRun(exc, rc, stdout) == [exc |-> exc, rc |-> rc, stdout |-> stdout]

\* mutant: version 18 itself is rejected (> instead of >=)
check_node_version_Above(out) ==
    IF out.exc THEN [ok |-> FALSE, detail |-> <<"check failed: ">>]
    ELSE IF out.rc = 0
    THEN LET version == Strip(out.stdout)
             version_num == SplitHead(LStrip(version, {"v"}), ".")
         IN  IF ~IntParses(version_num)
             THEN [ok |-> FALSE, detail |-> <<"check failed: ">>]
             ELSE IF IntValue(version_num) > MinNodeMajor
                  THEN [ok |-> TRUE, detail |-> version]
                  ELSE [ok |-> FALSE,
                        detail |-> <<"need >= 18.0.0, current: ">> \o version]
    ELSE [ok |-> FALSE, detail |-> <<"not installed">>]

\* check_node_version: (ok, detail)
check_node_version(out) ==
    IF out.exc THEN [ok |-> FALSE, detail |-> <<"check failed: ">>]
    ELSE IF out.rc = 0
    THEN LET version == Strip(out.stdout)
             version_num == SplitHead(LStrip(version, {"v"}), ".")
         IN  IF ~IntParses(version_num)
             THEN [ok |-> FALSE, detail |-> <<"check failed: ">>]
             ELSE IF IntValue(version_num) >= MinNodeMajor
                  THEN [ok |-> TRUE, detail |-> version]
                  ELSE [ok |-> FALSE,
                        detail |-> <<"need >= 18.0.0, current: ">> \o version]
    ELSE [ok |-> FALSE, detail |-> <<"not installed">>]

\* check_npm_installed, check_docker_installed,
\* check_docker_compose_installed: ok iff the tool ran and exited with 0
CheckToolInstalled(out) ==
    IF out.exc THEN [ok |-> FALSE, detail |-> <<"check failed: ">>]
    ELSE IF out.rc = 0 THEN [ok |-> TRUE, detail |-> Strip(out.stdout)]
    ELSE [ok |-> FALSE, detail |-> <<"not installed">>]

\* outcome of sock.connect_ex: 0 ("connected"), an errno ("refused"), or an
\* exception such as a name-resolution error or timeout ("error")
ConnectOutcomes == {"connected", "refused", "error"}

\* mutant: the comparison of connect_ex's result is dropped
check_port_available_AlwaysFree(conn) == TRUE

\* check_port_available: a successful connect means the port is in use
check_port_available(conn) == IF conn = "error" THEN TRUE ELSE conn # "connected"

\* check_redis_connection
check_redis_connection(conn) == IF conn = "error" THEN FALSE ELSE conn = "connected"

----------------------------------------------------------------------------
(* scripts/start_utils.py: ConfigManager                                   *)

\* what open(template).read() written to open(target, 'w') leaves in target
CopyText(content, plat) == PlatformNewlines(UniversalNewlines(content), plat)

\* ensure_env_file: ret is "true", "false" or "raise"; file is .env after
ensure_env_file(target, template, plat) ==
    IF IsNone(target)
    THEN IF ~IsNone(template)
         THEN IF Decodable(Get(template))
              THEN [ret |-> "true", file |-> Some(CopyText(Get(template), plat))]
              ELSE [ret |-> "raise", file |-> Some(<<>>)]
         ELSE [ret |-> "false", file |-> target]
    ELSE [ret |-> "true", file |-> target]

\* ensure_config_file: the same for config.js and config.example.js
ensure_config_file(target, template, plat) ==
    IF IsNone(target)
    THEN IF ~IsNone(template)
         THEN IF Decodable(Get(template))
              THEN [ret |-> "true", file |-> Some(CopyText(Get(template), plat))]
              ELSE [ret |-> "raise", file |-> Some(<<>>)]
         ELSE [ret |-> "false", file |-> target]
    ELSE [ret |-> "true", file |-> target]

\* mutant: the last matching line wins
get_env_value_LastMatch(file, key, default) ==
    IF IsNone(file) THEN default
    ELSE IF ~Decodable(Get(file)) THEN default
    ELSE Bind(SplitLines(UniversalNewlines(Get(file))), LAMBDA lines :
         Bind({i \in 1..Len(lines) :
                 StartsWith(Strip(lines[i]), key \o <<"=">>)}, LAMBDA hits :
            IF hits = {} THEN default
            ELSE Bind(CHOOSE i \in hits : \A j \in hits : i >= j, LAMBDA last :
                    SplitRest(Strip(lines[last]), "="))))

\* get_env_value(key, default): the file is read as UTF-8 text line by
\* line; any exception while reading gives the default
get_env_value(file, key, default) ==
    IF IsNone(file) THEN default
    ELSE IF ~Decodable(Get(file)) THEN default
    ELSE Bind(SplitLines(UniversalNewlines(Get(file))), LAMBDA lines :
         Bind({i \in 1..Len(lines) :
                 StartsWith(Strip(lines[i]), key \o <<"=">>)}, LAMBDA hits :
            IF hits = {} THEN default
            ELSE Bind(CHOOSE i \in hits : \A j \in hits : i <= j, LAMBDA first :
                    SplitRest(Strip(lines[first]), "="))))

----------------------------------------------------------------------------
(* scripts/start_utils.py: ProcessManager                                  *)

\* is_process_running(pid).  procs[pid] is "dead" (no such process), "own"
\* (alive, may be signalled) or "other" (alive, owned by another user:
\* os.kill raises PermissionError, an OSError).
is_process_running(pid, table, plat) ==
    IF plat = "windows" THEN table[pid] # "dead"
    ELSE table[pid] = "own"

\* mutant: a record that does not parse is removed like a stale one
get_running_pid_HealsUnparsable(file, table, plat) ==
    IF IsNone(file) THEN [ret |-> None, file |-> file, raised |-> FALSE]
    ELSE IF ~Decodable(Get(file)) \/ ~IntParses(Get(file))
    THEN [ret |-> None, file |-> None, raised |-> FALSE]
    ELSE LET pid == IntValue(Get(file))
         IN  IF is_process_running(pid, table, plat)
             THEN [ret |-> Some(pid), file |-> file, raised |-> FALSE]
             ELSE IF plat = "windows"
                  THEN [ret |-> None, file |-> file, raised |-> TRUE]
                  ELSE [ret |-> None, file |-> None, raised |-> FALSE]

\* get_running_pid: ret is None or Some(pid); file is the PID file after;
\* raised when an exception other than ValueError / FileNotFoundError
\* escapes (unlink of the still-open file fails on Windows)
get_running_pid(file, table, plat) ==
    IF IsNone(file) THEN [ret |-> None, file |-> file, raised |-> FALSE]
    ELSE IF ~Decodable(Get(file)) \/ ~IntParses(Get(file))
    THEN [ret |-> None, file |-> file, raised |-> FALSE]
    ELSE LET pid == IntValue(Get(file))
         IN  IF is_process_running(pid, table, plat)
             THEN [ret |-> Some(pid), file |-> file, raised |-> FALSE]
             ELSE IF plat = "windows"
                  THEN [ret |-> None, file |-> file, raised |-> TRUE]
                  ELSE [ret |-> None, file |-> None, raised |-> FALSE]

----------------------------------------------------------------------------
(* scripts/start_utils.py: ServiceStarter                                  *)

RequiredDirs == {"logs", "data", "temp"}

\* prepare_environment: ret and the files and directories afterwards
prepare_environment(env, envTpl, cfg, cfgTpl, ds, plat) ==
    LET e == ensure_env_file(env, envTpl, plat)
        c == ensure_config_file(cfg, cfgTpl, plat)
    IN  IF e.ret # "true"
        THEN [ret |-> e.ret, env |-> e.file, cfg |-> cfg, dirs |-> ds]
        ELSE IF c.ret # "true"
        THEN [ret |-> c.ret, env |-> e.file, cfg |-> c.file, dirs |-> ds]
        ELSE [ret |-> "true", env |-> e.file, cfg |-> c.file,
              dirs |-> ds \cup RequiredDirs]

DefaultRedisPort == <<"6", "3", "7", "9">>

\* check_redis_availability: "ok", "fail", or "raise" when int() of the
\* REDIS_PORT value raises ValueError
check_redis_availability(env, conn) ==
    Bind(get_env_value(env, <<"REDIS_HOST">>, <<"localhost">>), LAMBDA redis_host :
    Bind(get_env_value(env, <<"REDIS_PORT">>, DefaultRedisPort), LAMBDA redis_port :
       IF ~IntParses(redis_port) THEN "raise"
       ELSE IF check_redis_connection(conn) THEN "ok" ELSE "fail"))

----------------------------------------------------------------------------
(* start.py: inputs of one invocation                                      *)

DefaultPort == 3000

Ports == {DefaultPort, DefaultPort + 1}
ServiceActions == {"start", "stop", "restart", "status", "logs"}

Args(mode, port, daemon, rebuild, action) ==
    [mode |-> mode, port |-> port, daemon |-> daemon, rebuild |-> rebuild,
     action |-> action]

\* the namespaces create_parser can produce
ArgSpace ==
    {Args("none", DefaultPort, FALSE, FALSE, "")}
    \cup {Args("dev", p, FALSE, FALSE, "") : p \in Ports}
    \cup {Args("prod", p, d, FALSE, "") : p \in Ports, d \in BOOLEAN}
    \cup {Args("docker", DefaultPort, d, r, "") : d \in BOOLEAN, r \in BOOLEAN}
    \cup {Args("service", DefaultPort, FALSE, FALSE, a) : a \in ServiceActions}
    \cup {Args("status", DefaultPort, FALSE, FALSE, "")}

\* what `node --version` can do
NodeRuns ==
    {ToolRun(TRUE, 0, <<>>),
     ToolRun(FALSE, 1, <<>>),
     ToolRun(FALSE, 0, <<>>),
     ToolRun(FALSE, 0, <<"v", "1", "6", ".", "2", "0", ".", "1", "LF">>),
     ToolRun(FALSE, 0, <<"v", "1", "8", ".", "0", ".", "0", "LF">>),
     ToolRun(FALSE, 0, <<"v", "2", "0", ".", "1", ".", "0", "LF">>)}

\* what `npm --version`, `docker --version`, `docker-compose --version` can do
ToolRuns ==
    {ToolRun(TRUE, 0, <<>>),
     ToolRun(FALSE, 1, <<>>),
     ToolRun(FALSE, 0, <<"9", ".", "1", "LF">>)}

\* a subprocess.run that is waited for: exit status 0, non-zero, or the
\* command could not be run (an exception)
RunOutcomes == {"rc0", "rc1", "error"}

\* subprocess.Popen: the child is started, or Popen raises
SpawnOutcomes == {"spawned", "error"}

\* exit statuses a child can end with
ChildStatuses == {0, 1}

\* answers to input(): None is end of input (EOFError)
Answers ==
    {None, Some(<<>>), Some(<<"y">>), Some(<<"Y">>), Some(<<"n">>),
     Some(<<"y", "e", "s">>)}

\* str.lower()
Lower(s) ==
    [i \in 1..Len(s) |->
        CASE s[i] = "Y" -> "y" [] s[i] = "N" -> "n" [] OTHER -> s[i]]

\* .env contents the launcher is run with
EnvFileSpace ==
    {None,
     Some(<<"REDIS_HOST", "=", "h", "LF">>),
     Some(<<"REDIS_PORT", "=", "6", "3", "8", "0", "LF">>),
     Some(<<"REDIS_PORT", "=", "a", "LF">>)}

EnvExampleSpace ==
    {None,
     Some(<<"REDIS_PORT", "=", "6", "3", "7", "9", "CR", "LF">>),
     Some(<<"REDIS_PORT", "=", "BAD", "LF">>)}

ConfigSpace == {None, Some(<<"c", "LF">>)}

Pids == {7, 42}
ProcStates == {"dead", "own", "other"}
PidFileSpace ==
    {None, Some(<<"7", "LF">>), Some(<<"4", "2">>), Some(<<"x">>), Some(<<>>),
     Some(<<"7", "BAD">>)}

Step(op, res) == [op |-> op, res |-> res]

ServerCommands == {"npm run dev", "npm start", "npm run service:start:daemon"}

\* the invocation started a server (dev, prod foreground or prod daemon)
ServerLaunched == \E i \in 1..Len(steps) : steps[i].op \in ServerCommands

Did(op) == \E i \in 1..Len(steps) : steps[i].op = op
DidWith(op, res) == \E i \in 1..Len(steps) : steps[i] = Step(op, res)

----------------------------------------------------------------------------
(* start.py: main and the end of an invocation                             *)

Running == pc \notin {"main", "exited"}

Exit(code, by) ==
    /\ pc' = "exited"
    /\ exitCode' = code
    /\ exitBy' = by

\* main, lines 429-430: a mode that returns False ends in sys.exit(1); one
\* that returns True falls off the end of main (exit status 0)
ModeReturns(success) ==
    IF success THEN Exit(0, "return") ELSE Exit(1, "sys.exit")

\* main, lines 434-436: an exception escaping the mode is logged, exit 1
RaisesToMain == Exit(1, "except")

\* `call` before any library function was called
NoCall == [fn |-> "none"]

InitLauncher ==
    /\ pc = "main"
    /\ current_process = None
    /\ child = "none"
    /\ childRc = -1
    /\ terminateCalls = 0
    /\ steps = <<>>
    /\ exitCode = -1
    /\ exitBy = ""
    /\ startConfigFile = None
    /\ call = NoCall

Init ==
    /\ InitLauncher
    /\ platform \in {"posix", "windows"}
    /\ args \in ArgSpace
    /\ \/ /\ args.mode \in {"dev", "prod"}
          /\ envFile \in EnvFileSpace
          /\ envExample \in EnvExampleSpace
          /\ configFile \in ConfigSpace
          /\ configExample \in ConfigSpace
          /\ dirs \in {{}, {"logs"}}
          /\ pidFile = None
          /\ procs = [p \in Pids |-> "dead"]
       \/ /\ args.mode = "status"
          /\ envFile \in EnvFileSpace
          /\ envExample = None
          /\ configFile = None
          /\ configExample = None
          /\ dirs = {}
          /\ pidFile \in PidFileSpace
          /\ procs \in [Pids -> ProcStates]
       \/ /\ args.mode \in {"none", "docker", "service"}
          /\ envFile = None
          /\ envExample = None
          /\ configFile = None
          /\ configExample = None
          /\ dirs = {}
          /\ pidFile = None
          /\ procs = [p \in Pids |-> "dead"]

\* main, lines 402-427: parse, print help without a mode, else construct
\* the starter (which installs the signal handlers) and dispatch
main ==
    /\ pc = "main"
    /\ IF args.mode = "none"
       THEN Exit(0, "return")
       ELSE /\ pc' = CASE args.mode \in {"dev", "prod"} -> "system_check"
                       [] args.mode = "docker" -> "docker_check"
                       [] args.mode = "service" -> "service"
                       [] args.mode = "status" -> "status_node"
            /\ UNCHANGED <<exitCode, exitBy>>
    /\ UNCHANGED <<platform, args, current_process, child, childRc,
                   terminateCalls, steps, fileVars, pidFile, procs,
                   startConfigFile, call>>

\* what _signal_handler raises in the interrupted frame: sys.exit(0).
\* __init__ installs it for SIGINT too, in place of Python's default
\* handler, the only source of KeyboardInterrupt.
HandlerRaises == "SystemExit"

\* `except <clause>` catches exc; SystemExit and KeyboardInterrupt derive
\* from BaseException, not from Exception
Catches(clause, exc) ==
    IF clause = "Exception" THEN exc \notin {"SystemExit", "KeyboardInterrupt"}
    ELSE clause = exc

\* positions inside the try block of start_docker_mode (lines 272-304)
DockerTry == {"docker_build", "docker_up", "docker_wait"}

\* how the exception raised by the handler ends the invocation: the
\* `except KeyboardInterrupt` of start_docker_mode (298-301) would run
\* `docker-compose down` and return True, those of start_dev_mode,
\* start_prod_mode and main only log; all end with exit status 0, as does
\* an uncaught SystemExit(0)
HandlerUnwinds ==
    IF Catches("KeyboardInterrupt", HandlerRaises)
    THEN /\ steps' = steps \o <<Step("signal", pc)>>
                    \o (IF pc \in DockerTry
                        THEN <<Step("docker-compose down", "rc0")>> ELSE <<>>)
         /\ Exit(0, "return")
    ELSE /\ steps' = Append(steps, Step("signal", pc))
         /\ Exit(0, "signal")

\* mutant: terminate() is called without testing current_process
_signal_handler_TerminateUnconditionally ==
    /\ Running
    /\ terminateCalls' = terminateCalls + 1
    /\ HandlerUnwinds
    /\ UNCHANGED <<platform, args, current_process, child, childRc, fileVars,
                   pidFile, procs, startConfigFile, call>>

\* _signal_handler: SIGINT or SIGTERM at any point after the starter is
\* constructed
_signal_handler ==
    /\ Running
    /\ terminateCalls' =
          IF current_process # None THEN terminateCalls + 1 ELSE terminateCalls
    /\ HandlerUnwinds
    /\ UNCHANGED <<platform, args, current_process, child, childRc, fileVars,
                   pidFile, procs, startConfigFile, call>>

----------------------------------------------------------------------------
(* start.py: dev and prod preflight                                        *)

Goto(next) ==
    /\ pc' = next
    /\ UNCHANGED <<exitCode, exitBy>>

noChild == <<current_process, child, childRc, terminateCalls>>
environment == <<platform, args, procs, startConfigFile, call>>

\* _run_system_check, as called first by start_dev_mode / start_prod_mode
_run_system_check ==
    /\ pc = "system_check"
    /\ \E node \in NodeRuns, npm \in ToolRuns :
          LET n == check_node_version(node)
              m == CheckToolInstalled(npm)
          IN  IF ~n.ok
              THEN /\ steps' = Append(steps, Step("check_node_version", "fail"))
                   /\ ModeReturns(FALSE)
              ELSE IF ~m.ok
              THEN /\ steps' = steps \o <<Step("check_node_version", "ok"),
                                          Step("check_npm_installed", "fail")>>
                   /\ ModeReturns(FALSE)
              ELSE /\ steps' = steps \o <<Step("check_node_version", "ok"),
                                          Step("check_npm_installed", "ok")>>
                   /\ Goto("prepare")
    /\ UNCHANGED <<noChild, environment, fileVars, pidFile>>

\* service_starter.prepare_environment() and the caller's gate on it
PrepareEnv ==
    /\ pc = "prepare"
    /\ LET r == prepare_environment(envFile, envExample, configFile,
                                   configExample, dirs, platform)
       IN  /\ envFile' = r.env
           /\ configFile' = r.cfg
           /\ dirs' = r.dirs
           /\ steps' = Append(steps, Step("prepare_environment", r.ret))
           /\ CASE r.ret = "true" -> Goto("install")
                [] r.ret = "false" -> ModeReturns(FALSE)
                [] r.ret = "raise" -> RaisesToMain
    /\ UNCHANGED <<noChild, environment, envExample, configExample, pidFile>>

\* mutant: the result of `npm install` is not tested
install_dependencies_IgnoreFailure ==
    /\ pc = "install"
    /\ \E installed \in BOOLEAN, out \in RunOutcomes :
          IF installed
          THEN /\ steps' = Append(steps, Step("check_dependencies_installed", "true"))
               /\ Goto("build")
          ELSE /\ steps' = Append(steps, Step("npm install", out))
               /\ Goto("build")
    /\ UNCHANGED <<noChild, environment, fileVars, pidFile>>

\* service_starter.install_dependencies(): `npm install` unless
\* node_modules and package-lock.json both exist
install_dependencies ==
    /\ pc = "install"
    /\ \E installed \in BOOLEAN, out \in RunOutcomes :
          IF installed
          THEN /\ steps' = Append(steps, Step("check_dependencies_installed", "true"))
               /\ Goto("build")
          ELSE /\ steps' = Append(steps, Step("npm install", out))
               /\ IF out = "rc0" THEN Goto("build") ELSE ModeReturns(FALSE)
    /\ UNCHANGED <<noChild, environment, fileVars, pidFile>>

\* service_starter.build_frontend(): front-end `npm install` when its
\* node_modules is absent, then `npm run build`, unless dist is non-empty
build_frontend ==
    /\ pc = "build"
    /\ \E built \in BOOLEAN, deps \in BOOLEAN,
          inst \in RunOutcomes, out \in RunOutcomes :
          IF built
          THEN /\ steps' = Append(steps, Step("check_frontend_built", "true"))
               /\ Goto("redis")
          ELSE IF ~deps /\ inst # "rc0"
          THEN /\ steps' = Append(steps, Step("npm install (admin-spa)", inst))
               /\ ModeReturns(FALSE)
          ELSE /\ steps' = steps
                    \o (IF deps THEN <<>>
                        ELSE <<Step("npm install (admin-spa)", inst)>>)
                    \o <<Step("npm run build", out)>>
               /\ IF out = "rc0" THEN Goto("redis") ELSE ModeReturns(FALSE)
    /\ UNCHANGED <<noChild, environment, fileVars, pidFile>>

\* mutant: prod mode gets dev mode's soft gate
CheckRedis_SoftInProd ==
    /\ pc = "redis"
    /\ \E conn \in ConnectOutcomes :
          LET r == check_redis_availability(envFile, conn)
          IN  /\ steps' = Append(steps, Step("check_redis_availability", r))
              /\ CASE r = "raise" -> RaisesToMain
                   [] r = "ok" -> Goto("port")
                   [] r = "fail" -> Goto("prompt")
    /\ UNCHANGED <<noChild, environment, fileVars, pidFile>>

\* check_redis_availability() and the gate on it: a prompt in dev mode, a
\* hard gate in prod mode; a ValueError from int() escapes to main
CheckRedis ==
    /\ pc = "redis"
    /\ \E conn \in ConnectOutcomes :
          LET r == check_redis_availability(envFile, conn)
          IN  /\ steps' = Append(steps, Step("check_redis_availability", r))
              /\ CASE r = "raise" -> RaisesToMain
                   [] r = "ok" -> Goto("port")
                   [] r = "fail" ->
                        IF args.mode = "dev" THEN Goto("prompt")
                        ELSE ModeReturns(FALSE)
    /\ UNCHANGED <<noChild, environment, fileVars, pidFile>>

\* mutant: the prompt defaults to yes (only an explicit n aborts)
Prompt_DefaultYes ==
    /\ pc = "prompt"
    /\ \E answer \in Answers :
          /\ steps' = Append(steps, Step("input", answer))
          /\ IF IsNone(answer) THEN RaisesToMain
             ELSE IF Lower(Get(answer)) = <<"n">> THEN ModeReturns(FALSE)
             ELSE Goto("port")
    /\ UNCHANGED <<noChild, environment, fileVars, pidFile>>

\* start_dev_mode, line 127: input(...).lower() != 'y' aborts; the step
\* logged is the line read (None at end of input, where input() raises
\* EOFError)
Prompt ==
    /\ pc = "prompt"
    /\ \E answer \in Answers :
          /\ steps' = Append(steps, Step("input", answer))
          /\ IF IsNone(answer) THEN RaisesToMain
             ELSE IF Lower(Get(answer)) # <<"y">> THEN ModeReturns(FALSE)
             ELSE Goto("port")
    /\ UNCHANGED <<noChild, environment, fileVars, pidFile>>

\* _check_port_conflicts(port): on a conflict the occupying process is
\* looked up (lsof / netstat, any failure swallowed) and the mode aborts
_check_port_conflicts ==
    /\ pc = "port"
    /\ \E conn \in ConnectOutcomes, lookup \in RunOutcomes :
          IF check_port_available(conn)
          THEN /\ steps' = steps
                    \o <<Step("connect localhost:port", conn),
                         Step("check_port_available", "free")>>
               /\ Goto("launch")
          ELSE /\ steps' = steps
                    \o <<Step("connect localhost:port", conn),
                         Step("check_port_available", "occupied"),
                         Step(IF platform = "windows" THEN "netstat -ano"
                              ELSE "lsof -i", lookup)>>
               /\ ModeReturns(FALSE)
    /\ UNCHANGED <<noChild, environment, fileVars, pidFile>>

----------------------------------------------------------------------------
(* start.py: launch and wait                                               *)

\* subprocess.Popen(cmd) assigned to self.current_process
Spawn(cmd, next) ==
    /\ current_process' = Some(cmd)
    /\ child' = "running"
    /\ steps' = Append(steps, Step(cmd, "spawned"))
    /\ Goto(next)
    /\ UNCHANGED <<childRc, terminateCalls>>

\* Popen raised: caught by the mode's `except Exception`, which returns False
SpawnFails(cmd) ==
    /\ steps' = Append(steps, Step(cmd, "error"))
    /\ ModeReturns(FALSE)
    /\ UNCHANGED noChild

\* start_dev_mode, lines 135-166: Popen `npm run dev`
LaunchDev ==
    /\ pc = "launch"
    /\ args.mode = "dev"
    /\ \E sp \in SpawnOutcomes :
          IF sp = "spawned" THEN Spawn("npm run dev", "wait")
          ELSE SpawnFails("npm run dev")
    /\ UNCHANGED <<environment, fileVars, pidFile>>

\* mutant: the exit status of the daemon-start script is not read
LaunchProdDaemon_IgnoreStatus ==
    /\ pc = "launch"
    /\ args.mode = "prod"
    /\ args.daemon
    /\ \E out \in RunOutcomes :
          /\ steps' = Append(steps, Step("npm run service:start:daemon", out))
          /\ ModeReturns(out # "error")
    /\ UNCHANGED <<noChild, environment, fileVars, pidFile>>

\* start_prod_mode, lines 201-220: synchronous `npm run service:start:daemon`
LaunchProdDaemon ==
    /\ pc = "launch"
    /\ args.mode = "prod"
    /\ args.daemon
    /\ \E out \in RunOutcomes :
          /\ steps' = Append(steps, Step("npm run service:start:daemon", out))
          /\ ModeReturns(out = "rc0")
    /\ UNCHANGED <<noChild, environment, fileVars, pidFile>>

\* start_prod_mode, lines 221-251: Popen `npm start`
LaunchProdForeground ==
    /\ pc = "launch"
    /\ args.mode = "prod"
    /\ ~args.daemon
    /\ \E sp \in SpawnOutcomes :
          IF sp = "spawned" THEN Spawn("npm start", "wait")
          ELSE SpawnFails("npm start")
    /\ UNCHANGED <<environment, fileVars, pidFile>>

\* the child ends on its own with some exit status
ChildExits ==
    /\ Running
    /\ child = "running"
    /\ \E rc \in ChildStatuses :
          /\ child' = "exited"
          /\ childRc' = rc
    /\ UNCHANGED <<environment, fileVars, pidFile, pc, exitCode, exitBy,
                   steps, current_process, terminateCalls, args>>

\* mutant: the server is started again when it has exited
WaitReturns_Relaunch ==
    /\ pc = "wait"
    /\ child = "exited"
    /\ steps' = Append(steps, Step("wait", "returned"))
    /\ Goto("launch")
    /\ current_process' = None
    /\ child' = "none"
    /\ childRc' = -1
    /\ UNCHANGED <<terminateCalls, environment, fileVars, pidFile>>

\* self.current_process.wait() returns; the mode then returns True
\* (start_dev_mode 158-159, start_prod_mode 243-244)
WaitReturns ==
    /\ pc = "wait"
    /\ child = "exited"
    /\ steps' = Append(steps, Step("wait", "returned"))
    /\ ModeReturns(TRUE)
    /\ UNCHANGED <<noChild, environment, fileVars, pidFile>>

----------------------------------------------------------------------------
(* start.py: docker, service and status modes                              *)

\* start_docker_mode, lines 257-268
DockerCheck ==
    /\ pc = "docker_check"
    /\ \E docker \in ToolRuns, compose \in ToolRuns :
          IF ~CheckToolInstalled(docker).ok
          THEN /\ steps' = Append(steps, Step("check_docker_installed", "fail"))
               /\ ModeReturns(FALSE)
          ELSE IF ~CheckToolInstalled(compose).ok
          THEN /\ steps' = steps
                    \o <<Step("check_docker_installed", "ok"),
                         Step("check_docker_compose_installed", "fail")>>
               /\ ModeReturns(FALSE)
          ELSE /\ steps' = steps
                    \o <<Step("check_docker_installed", "ok"),
                         Step("check_docker_compose_installed", "ok")>>
               /\ Goto(IF args.rebuild THEN "docker_build" ELSE "docker_up")
    /\ UNCHANGED <<noChild, environment, fileVars, pidFile>>

\* mutant: a failed build does not stop the mode
DockerBuild_IgnoreFailure ==
    /\ pc = "docker_build"
    /\ \E out \in RunOutcomes :
          /\ steps' = Append(steps, Step("docker-compose build", out))
          /\ IF out # "error" THEN Goto("docker_up") ELSE ModeReturns(FALSE)
    /\ UNCHANGED <<noChild, environment, fileVars, pidFile>>

\* start_docker_mode, lines 273-279: `docker-compose build` with --rebuild
DockerBuild ==
    /\ pc = "docker_build"
    /\ \E out \in RunOutcomes :
          /\ steps' = Append(steps, Step("docker-compose build", out))
          /\ IF out = "rc0" THEN Goto("docker_up") ELSE ModeReturns(FALSE)
    /\ UNCHANGED <<noChild, environment, fileVars, pidFile>>

UpCommand == IF args.daemon THEN "docker-compose up -d" ELSE "docker-compose up"

\* start_docker_mode, lines 281-286: Popen `docker-compose up [-d]`
DockerUp ==
    /\ pc = "docker_up"
    /\ \E sp \in SpawnOutcomes :
          IF sp = "spawned" THEN Spawn(UpCommand, "docker_wait")
          ELSE SpawnFails(UpCommand)
    /\ UNCHANGED <<environment, fileVars, pidFile>>

\* mutant: the exit status of `up` decides the result of the mode
DockerWaitReturns_PropagateStatus ==
    /\ pc = "docker_wait"
    /\ child = "exited"
    /\ steps' = Append(steps, Step("wait", "returned"))
    /\ ModeReturns(childRc = 0)
    /\ UNCHANGED <<noChild, environment, fileVars, pidFile>>

\* start_docker_mode, lines 288-296: wait() returns, the mode returns True
DockerWaitReturns ==
    /\ pc = "docker_wait"
    /\ child = "exited"
    /\ steps' = Append(steps, Step("wait", "returned"))
    /\ ModeReturns(TRUE)
    /\ UNCHANGED <<noChild, environment, fileVars, pidFile>>

\* mutant: the script's exit status is not read
manage_service_IgnoreStatus ==
    /\ pc = "service"
    /\ \E out \in RunOutcomes :
          /\ steps' = Append(steps, Step("npm run service:" \o args.action, out))
          /\ ModeReturns(out # "error")
    /\ UNCHANGED <<noChild, environment, fileVars, pidFile>>

\* manage_service(action): `npm run service:<action>`
manage_service ==
    /\ pc = "service"
    /\ \E out \in RunOutcomes :
          /\ steps' = Append(steps, Step("npm run service:" \o args.action, out))
          /\ ModeReturns(out = "rc0")
    /\ UNCHANGED <<noChild, environment, fileVars, pidFile>>

\* show_status, lines 323-332: system info and the node check, no gate
StatusNode ==
    /\ pc = "status_node"
    /\ \E node \in NodeRuns :
          steps' = Append(steps, Step("check_node_version",
                                      IF check_node_version(node).ok THEN "ok" ELSE "fail"))
    /\ Goto("status_redis")
    /\ UNCHANGED <<noChild, environment, fileVars, pidFile>>

\* show_status, lines 334-337: check_redis_availability, not guarded
StatusRedis ==
    /\ pc = "status_redis"
    /\ \E conn \in ConnectOutcomes :
          LET r == check_redis_availability(envFile, conn)
          IN  /\ steps' = Append(steps, Step("check_redis_availability", r))
              /\ IF r = "raise" THEN RaisesToMain ELSE Goto("status_pid")
    /\ UNCHANGED <<noChild, environment, fileVars, pidFile>>

\* show_status, lines 339-344: process_manager.get_running_pid()
StatusPid ==
    /\ pc = "status_pid"
    /\ LET g == get_running_pid(pidFile, procs, platform)
       IN  /\ pidFile' = g.file
           /\ steps' = Append(steps, Step("get_running_pid",
                                 IF g.raised THEN "raise"
                                 ELSE IF IsNone(g.ret) THEN "none" ELSE "pid"))
           /\ IF g.raised THEN RaisesToMain ELSE Goto("status_port")
    /\ UNCHANGED <<noChild, environment, fileVars>>

\* show_status, lines 346-352: port 3000 occupancy, then return True
StatusPort ==
    /\ pc = "status_port"
    /\ \E conn \in ConnectOutcomes :
          steps' = Append(steps, Step("check_port_available",
                                      IF check_port_available(conn) THEN "free" ELSE "occupied"))
    /\ ModeReturns(TRUE)
    /\ UNCHANGED <<noChild, environment, fileVars, pidFile>>

Next ==
    \/ main
    \/ _signal_handler
    \/ _run_system_check
    \/ PrepareEnv
    \/ install_dependencies
    \/ build_frontend
    \/ CheckRedis
    \/ Prompt
    \/ _check_port_conflicts
    \/ LaunchDev
    \/ LaunchProdDaemon
    \/ LaunchProdForeground
    \/ ChildExits
    \/ WaitReturns
    \/ DockerCheck
    \/ DockerBuild
    \/ DockerUp
    \/ DockerWaitReturns
    \/ manage_service
    \/ StatusNode
    \/ StatusRedis
    \/ StatusPid
    \/ StatusPort

Spec == Init /\ [][Next]_vars

\* the steps of the launcher itself, of the commands it waits for (which
\* end) and of the operator at the prompt (who answers); a signal may never
\* come
Progress ==
    \/ main
    \/ _run_system_check
    \/ PrepareEnv
    \/ install_dependencies
    \/ build_frontend
    \/ CheckRedis
    \/ Prompt
    \/ _check_port_conflicts
    \/ LaunchDev
    \/ LaunchProdDaemon
    \/ LaunchProdForeground
    \/ ChildExits
    \/ WaitReturns
    \/ DockerCheck
    \/ DockerBuild
    \/ DockerUp
    \/ DockerWaitReturns
    \/ manage_service
    \/ StatusNode
    \/ StatusRedis
    \/ StatusPid
    \/ StatusPort

\* one invocation whose interpreter keeps running and whose external
\* commands and operator do not hang
SpecLive == Init /\ [][Next]_vars /\ WF_vars(Progress)

----------------------------------------------------------------------------
(* Properties of one invocation (specification Spec)                       *)

RedisCheckFailed ==
    \/ DidWith("check_redis_availability", "fail")
    \/ DidWith("check_redis_availability", "raise")

\* C1: in prod mode, with or without --daemon, once the Redis availability
\* check has failed the server is never launched (neither `npm start` nor
\* `npm run service:start:daemon` is run, no child is tracked) and the
\* process ends with exit code 1.
C1_ProdRedisHardGate ==
    (args.mode = "prod" /\ RedisCheckFailed)
        => /\ ~ServerLaunched
           /\ current_process = None
           /\ child = "none"
           /\ pc = "exited"
           /\ exitCode = 1

C1_Witness ==
    /\ args.mode = "prod"
    /\ args.daemon
    /\ DidWith("check_redis_availability", "fail")
    /\ DidWith("prepare_environment", "true")
    /\ exitCode = 1

\* C2: in dev and prod mode, when the port check's connect to
\* localhost:port succeeds (the port is occupied), the process ends with
\* exit code 1 and no server was spawned: the tracked child is unset.
C2_PortConflictAborts ==
    (args.mode \in {"dev", "prod"} /\ DidWith("connect localhost:port", "connected"))
        => /\ pc = "exited"
           /\ exitCode = 1
           /\ ~ServerLaunched
           /\ current_process = None
           /\ child = "none"

C2_Witness ==
    /\ args.mode = "dev"
    /\ DidWith("check_redis_availability", "ok")
    /\ DidWith("connect localhost:port", "connected")
    /\ exitCode = 1

\* C3: status mode always ends with exit code 0, whatever the state of the
\* checked subsystems (.env content and PID file included).
C3_StatusAlwaysExitsZero ==
    (args.mode = "status" /\ pc = "exited") => exitCode = 0

\* C4: in dev mode and foreground prod mode, when the spawned child exits
\* on its own the launcher's exit code is 0 if the child's status is 0 and
\* 1 otherwise.
C4_ChildStatusPropagated ==
    (args.mode \in {"dev", "prod"} /\ pc = "exited" /\ DidWith("wait", "returned"))
        => exitCode = (IF childRc = 0 THEN 0 ELSE 1)

\* C5: a SIGINT/SIGTERM is handled at every point after the starter is
\* constructed; the handler issues one terminate request iff a child is
\* tracked and exits with status 0 at once, whatever gate was pending and
\* whether or not the child has died.
C5_SignalTerminatesAndExitsZero ==
    /\ Running => ENABLED _signal_handler
    /\ exitBy = "signal"
          => /\ pc = "exited"
             /\ exitCode = 0
             /\ terminateCalls = (IF current_process = None THEN 0 ELSE 1)
    /\ exitBy # "signal" => terminateCalls = 0

C5_Witness ==
    /\ exitBy = "signal"
    /\ DidWith("signal", "wait")
    /\ child = "running"
    /\ terminateCalls = 1
    /\ exitCode = 0

\* the preflight stage a logged step belongs to (0: not a preflight step)
StageOf(op) ==
    CASE op \in {"check_node_version", "check_npm_installed"} -> 1
      [] op = "prepare_environment" -> 2
      [] op \in {"check_dependencies_installed", "npm install"} -> 3
      [] op \in {"check_frontend_built", "npm install (admin-spa)",
                 "npm run build"} -> 4
      [] op \in {"check_redis_availability", "input"} -> 5
      [] op \in {"connect localhost:port", "check_port_available",
                 "lsof -i", "netstat -ano"} -> 6
      [] op \in ServerCommands \cup {"wait"} -> 7
      [] OTHER -> 0

Affirmative == {Some(<<"y">>), Some(<<"Y">>)}

\* the step is a failed gate of a dev / prod preflight
GateFailed(st) ==
    \/ st.op \in {"check_node_version", "check_npm_installed"} /\ st.res = "fail"
    \/ st.op = "prepare_environment" /\ st.res # "true"
    \/ st.op \in {"npm install", "npm install (admin-spa)", "npm run build"}
          /\ st.res # "rc0"
    \/ st.op = "check_redis_availability" /\ st.res = "raise"
    \/ st.op = "check_redis_availability" /\ st.res = "fail" /\ args.mode = "prod"
    \/ st.op = "input" /\ st.res \notin Affirmative
    \/ st.op = "check_port_available" /\ st.res = "occupied"

\* the step is a gate that let the preflight through
GatePassed(st) ==
    \/ st.op \in {"check_node_version", "check_npm_installed"} /\ st.res = "ok"
    \/ st.op = "prepare_environment" /\ st.res = "true"
    \/ st.op \in {"check_dependencies_installed", "check_frontend_built"}
    \/ st.op \in {"npm install", "npm run build"} /\ st.res = "rc0"
    \/ st.op = "check_redis_availability" /\ st.res = "ok"
    \/ st.op = "input" /\ st.res \in Affirmative
    \/ st.op = "check_port_available" /\ st.res = "free"

PreflightInOrder ==
    /\ \A i, j \in 1..Len(steps) :
          (i < j /\ steps[j].op # "signal") => StageOf(steps[i].op) <= StageOf(steps[j].op)
    /\ \A j \in 1..Len(steps) :
          \A stage \in 1..(StageOf(steps[j].op) - 1) :
             \E i \in 1..(j - 1) :
                StageOf(steps[i].op) = stage /\ GatePassed(steps[i])

FailedGateIsFinal ==
    \A i \in 1..Len(steps) :
       GateFailed(steps[i])
          => /\ pc = "exited"
             /\ exitCode = 1
             /\ ~ServerLaunched
             /\ current_process = None
             /\ \A j \in (i + 1)..Len(steps) :
                   StageOf(steps[j].op) = StageOf(steps[i].op)

\* C13: in dev and prod mode the preflight steps run in the order version
\* checks, environment preparation, dependency install, front-end build,
\* Redis check, port check, server launch, each only after every earlier
\* one passed; once a gate has failed no step of a later stage is run, the
\* server is not launched and the process has exited with code 1; files
\* and directories are only ever touched by the environment preparation
\* (so a failed version check leaves none created).
C13_PreflightHardGates ==
    /\ [](args.mode \in {"dev", "prod"} => (PreflightInOrder /\ FailedGateIsFinal))
    /\ [][fileVars' # fileVars => pc = "prepare"]_vars

\* `npm install` failed after the environment was prepared: nothing later
C13_Witness ==
    /\ args.mode = "prod"
    /\ Len(steps) = 4
    /\ steps[3] = Step("prepare_environment", "true")
    /\ steps[4] = Step("npm install", "rc1")
    /\ dirs = RequiredDirs
    /\ exitCode = 1

\* C14: in dev mode a failed Redis check prompts the operator; the port
\* check follows iff the answer is y or Y; every other answer, the empty
\* one included, ends with exit code 1 and no server spawned; a reachable
\* Redis is never followed by a prompt.
C14_DevSoftGate ==
    /\ Did("input")
          => /\ args.mode = "dev"
             /\ DidWith("check_redis_availability", "fail")
    /\ (args.mode = "dev" /\ DidWith("check_redis_availability", "fail"))
          => (pc = "prompt" \/ Did("input") \/ exitBy = "signal")
    /\ \A i \in 1..Len(steps) :
          steps[i].op = "input"
             => IF steps[i].res \in Affirmative
                THEN pc = "port" \/ Did("check_port_available")
                        \/ DidWith("signal", "port")
                ELSE /\ pc = "exited"
                     /\ exitCode = 1
                     /\ ~ServerLaunched
                     /\ current_process = None
                     /\ ~Did("check_port_available")

\* the empty answer aborts
C14_Witness ==
    /\ args.mode = "dev"
    /\ DidWith("check_redis_availability", "fail")
    /\ DidWith("input", Some(<<>>))
    /\ exitCode = 1
    /\ ~Did("check_port_available")

\* the steps logged apart from the arrival of a signal
Commands == SelectSeq(steps, LAMBDA st : st.op # "signal")

\* C16: service mode runs one script, `npm run service:<action>` for the
\* action asked for, and nothing else: no preflight gate, no write to the
\* PID file or any other file; once the script has run the launcher has
\* exited, with code 0 iff the script exited with 0 and code 1 when it
\* exited non-zero or could not be run.
C16_ServiceDelegates ==
    /\ [](args.mode = "service"
            => /\ args.action \in {"start", "stop", "restart", "status", "logs"}
               /\ Len(Commands) <= 1
               /\ current_process = None
               /\ \A i \in 1..Len(Commands) :
                     /\ Commands[i].op = "npm run service:" \o args.action
                     /\ pc = "exited"
                     /\ exitCode = (IF Commands[i].res = "rc0" THEN 0 ELSE 1)
               /\ (pc = "exited" /\ exitBy # "signal") => Len(Commands) = 1)
    /\ [][args.mode = "service" => UNCHANGED <<pidFile, fileVars>>]_vars

C16_Witness ==
    /\ args.mode = "service"
    /\ args.action = "restart"
    /\ steps = <<Step("npm run service:restart", "rc1")>>
    /\ exitCode = 1

UpCommands == {"docker-compose up", "docker-compose up -d"}

\* C17: in docker mode `docker-compose up` is started only after the docker
\* and docker-compose checks passed and, with --rebuild, after
\* `docker-compose build` exited with 0; a failed check or build ends with
\* exit code 1 and no `up`; build is run only with --rebuild; `up` gets -d
\* iff --daemon was given.
C17_DockerGates ==
    args.mode = "docker"
        => /\ \A i \in 1..Len(steps) :
                 steps[i].op \in UpCommands
                    => /\ steps[i].op = (IF args.daemon THEN "docker-compose up -d"
                                         ELSE "docker-compose up")
                       /\ i > 2
                       /\ steps[1] = Step("check_docker_installed", "ok")
                       /\ steps[2] = Step("check_docker_compose_installed", "ok")
                       /\ args.rebuild
                             => /\ i > 3
                                /\ steps[3] = Step("docker-compose build", "rc0")
           /\ Did("docker-compose build") => args.rebuild
           /\ \A i \in 1..Len(steps) :
                 (\/ steps[i].op \in {"check_docker_installed",
                                      "check_docker_compose_installed"}
                       /\ steps[i].res = "fail"
                  \/ steps[i].op = "docker-compose build" /\ steps[i].res # "rc0")
                    => /\ pc = "exited"
                       /\ exitCode = 1
                       /\ i = Len(steps)
                       /\ current_process = None

\* --rebuild --daemon: checks, build, then `up -d`
C17_Witness ==
    /\ args.mode = "docker"
    /\ args.rebuild
    /\ args.daemon
    /\ Len(steps) >= 4
    /\ steps[3] = Step("docker-compose build", "rc0")
    /\ steps[4] = Step("docker-compose up -d", "spawned")

\* C19: in prod mode with --daemon, once every gate has passed the server
\* is started by one synchronous run of `npm run service:start:daemon`;
\* no child is ever tracked and `npm start` is never run; the launcher
\* exits with code 0 iff that script exited with 0.
C19_ProdDaemon ==
    (args.mode = "prod" /\ args.daemon)
        => /\ current_process = None
           /\ child = "none"
           /\ ~Did("npm start")
           /\ DidWith("check_port_available", "free")
                 => \/ pc = "launch"
                    \/ exitBy = "signal"
                    \/ Did("npm run service:start:daemon")
           /\ \A i \in 1..Len(steps) :
                 steps[i].op = "npm run service:start:daemon"
                    => /\ i = Len(steps)
                       /\ \A j \in 1..(i - 1) : steps[j].op # steps[i].op
                       /\ steps[i - 1] = Step("check_port_available", "free")
                       /\ pc = "exited"
                       /\ exitCode = (IF steps[i].res = "rc0" THEN 0 ELSE 1)

C19_Witness ==
    /\ args.mode = "prod"
    /\ args.daemon
    /\ DidWith("npm run service:start:daemon", "rc0")
    /\ exitCode = 0
    /\ current_process = None

\* no check or command is logged twice
OnePass ==
    \A i, j \in 1..Len(steps) : i < j => steps[i].op # steps[j].op

\* C21: every invocation, in every mode and without one, reaches process
\* exit, provided the commands it waits for end and the prompt is
\* answered; on the way no check or command is run a second time, so no
\* preflight step is re-entered and the server is launched at most once.
C21_OnePassTerminates ==
    /\ <>(pc = "exited")
    /\ [](OnePass /\ (pc = "exited" => ~ENABLED Next))

\* a dev run through every stage, prompt included, up to the child's end
C21_Witness ==
    /\ args.mode = "dev"
    /\ DidWith("input", Some(<<"y">>))
    /\ DidWith("npm run dev", "spawned")
    /\ DidWith("wait", "returned")
    /\ pc = "exited"

\* C25: in docker mode, once `docker-compose up` has been spawned the
\* launcher ends with exit code 0, whatever status `up` exits with (with
\* or without --daemon); a failure to spawn it gives exit code 1, and so
\* does nothing else after the gates.
C25_DockerUpStatusIgnored ==
    (args.mode = "docker" /\ pc = "exited")
        => /\ (\E i \in 1..Len(steps) :
                   steps[i].op \in UpCommands /\ steps[i].res = "spawned")
                 => exitCode = 0
           /\ (\E i \in 1..Len(steps) :
                   steps[i].op \in UpCommands /\ steps[i].res = "error")
                 => exitCode = 1
           /\ exitCode = 1
                 => \/ DidWith("check_docker_installed", "fail")
                    \/ DidWith("check_docker_compose_installed", "fail")
                    \/ DidWith("docker-compose build", "rc1")
                    \/ DidWith("docker-compose build", "error")
                    \/ \E i \in 1..Len(steps) :
                          steps[i].op \in UpCommands /\ steps[i].res = "error"

\* `up -d` exited with 1 and the launcher with 0
C25_Witness ==
    /\ args.mode = "docker"
    /\ args.daemon
    /\ DidWith("docker-compose up -d", "spawned")
    /\ DidWith("wait", "returned")
    /\ childRc = 1
    /\ exitCode = 0

\* C6: in foreground docker mode, an interrupt received while waiting on
\* `docker-compose up` is forwarded by running `docker-compose down` before
\* the launcher exits.
C6_InterruptRunsComposeDown ==
    (/\ args.mode = "docker"
     /\ ~args.daemon
     /\ DidWith("signal", "docker_wait")
     /\ pc = "exited")
        => Did("docker-compose down")

----------------------------------------------------------------------------
(* Library calls made on their own: the specifications below start from    *)
(* the inputs of one function of start_utils.py and apply it.              *)

\* no invocation of main is in progress
Idle ==
    /\ pc = "library"
    /\ args = Args("none", DefaultPort, FALSE, FALSE, "")
    /\ current_process = None
    /\ child = "none"
    /\ childRc = -1
    /\ terminateCalls = 0
    /\ steps = <<>>
    /\ exitCode = -1
    /\ exitBy = ""
    /\ call = NoCall

NoFiles ==
    /\ envFile = None
    /\ envExample = None
    /\ configFile = None
    /\ configExample = None
    /\ dirs = {}

----------------------------------------------------------------------------
(* ProcessManager.get_running_pid (specification SpecPid)                  *)

InitPid ==
    /\ Idle
    /\ NoFiles
    /\ platform \in {"posix", "windows"}
    /\ pidFile \in PidFileSpace
    /\ procs \in [Pids -> ProcStates]
    /\ startConfigFile = None

\* process_manager.get_running_pid()
CallGetRunningPid ==
    /\ pc = "library"
    /\ LET g == get_running_pid(pidFile, procs, platform)
       IN  /\ pidFile' = g.file
           /\ call' = [fn |-> "get_running_pid", file |-> pidFile,
                       ret |-> g.ret, raised |-> g.raised]
    /\ UNCHANGED <<platform, launchVars, fileVars, procs, startConfigFile>>

NextPid == CallGetRunningPid

SpecPid == InitPid /\ [][NextPid]_vars

\* the PID file holds an integer
HoldsPid(file) ==
    /\ ~IsNone(file)
    /\ Decodable(Get(file))
    /\ IntParses(Get(file))

PidIn(file) == IntValue(Get(file))

\* C7: get_running_pid returns the recorded pid and keeps the PID file when
\* that process is alive; returns none and removes the PID file when the
\* process does not exist; returns none when there is no PID file.
C7_GetRunningPidSelfHeals ==
    call.fn = "get_running_pid"
        => /\ IsNone(call.file) => (call.ret = None /\ ~call.raised)
           /\ (HoldsPid(call.file) /\ procs[PidIn(call.file)] # "dead")
                 => /\ ~call.raised
                    /\ call.ret = Some(PidIn(call.file))
                    /\ pidFile = call.file
           /\ (HoldsPid(call.file) /\ procs[PidIn(call.file)] = "dead")
                 => /\ ~call.raised
                    /\ call.ret = None
                    /\ IsNone(pidFile)

\* C24: a PID file whose content is not an integer makes get_running_pid
\* return none without raising and is left as it is, so that every later
\* call finds it again.
C24_UnparsableRecordKept ==
    /\ []((call.fn = "get_running_pid" /\ ~IsNone(call.file)
                                       /\ ~HoldsPid(call.file))
            => /\ call.ret = None
               /\ ~call.raised
               /\ pidFile = call.file)
    /\ [][(~IsNone(pidFile) /\ ~HoldsPid(pidFile))
            => /\ pidFile' = pidFile
               /\ call'.ret = None
               /\ ~call'.raised]_vars

C24_Witness ==
    /\ call.fn = "get_running_pid"
    /\ call.file = Some(<<"x">>)
    /\ pidFile = Some(<<"x">>)
    /\ call.ret = None
    /\ ~call.raised

----------------------------------------------------------------------------
(* ConfigManager.ensure_env_file / ensure_config_file (SpecFiles)          *)

MaxTextLen == 2

FileSymbols == {"a", "CR", "LF", "BAD"}

\* every text of at most MaxTextLen symbols
Texts == UNION {[1..n -> FileSymbols] : n \in 0..MaxTextLen}

TemplateSpace == {None} \cup {Some(t) : t \in Texts}
TargetSpace == {None, Some(<<>>), Some(<<"a">>)}

InitFiles ==
    /\ Idle
    /\ platform \in {"posix", "windows"}
    /\ dirs = {}
    /\ pidFile = None
    /\ procs = [p \in Pids |-> "dead"]
    /\ startConfigFile = None
    /\ \/ /\ envFile \in TargetSpace
          /\ envExample \in TemplateSpace
          /\ configFile = None
          /\ configExample = None
       \/ /\ configFile \in TargetSpace
          /\ configExample \in TemplateSpace
          /\ envFile = None
          /\ envExample = None

\* config_manager.ensure_env_file()
CallEnsureEnvFile ==
    /\ pc = "library"
    /\ LET r == ensure_env_file(envFile, envExample, platform)
       IN  /\ envFile' = r.file
           /\ call' = [fn |-> "ensure_env_file", target |-> envFile,
                       template |-> envExample, ret |-> r.ret]
    /\ UNCHANGED <<platform, launchVars, envExample, configFile, configExample,
                   dirs, pidFile, procs, startConfigFile>>

\* config_manager.ensure_config_file()
CallEnsureConfigFile ==
    /\ pc = "library"
    /\ LET r == ensure_config_file(configFile, configExample, platform)
       IN  /\ configFile' = r.file
           /\ call' = [fn |-> "ensure_config_file", target |-> configFile,
                       template |-> configExample, ret |-> r.ret]
    /\ UNCHANGED <<platform, launchVars, envFile, envExample, configExample,
                   dirs, pidFile, procs, startConfigFile>>

NextFiles ==
    \/ CallEnsureEnvFile
    \/ CallEnsureConfigFile

SpecFiles == InitFiles /\ [][NextFiles]_vars

\* C8: each call of ensure_env_file / ensure_config_file: with the target
\* present it writes nothing and returns success; with target and template
\* both absent it returns failure and creates nothing; with the target
\* absent and the template present it creates the target with the
\* template's content and returns success (so that every later call is the
\* first case).
C8_EnsureIdempotent ==
    call.fn \in {"ensure_env_file", "ensure_config_file"}
        => LET now == IF call.fn = "ensure_env_file" THEN envFile ELSE configFile
           IN  /\ ~IsNone(call.target)
                     => (call.ret = "true" /\ now = call.target)
               /\ (IsNone(call.target) /\ IsNone(call.template))
                     => (call.ret = "false" /\ IsNone(now))
               /\ (IsNone(call.target) /\ ~IsNone(call.template))
                     => (call.ret = "true" /\ now = call.template)

----------------------------------------------------------------------------
(* ConfigManager.load_start_config / save_start_config (SpecConfig)        *)
(*                                                                         *)
(* A Python value is a pair <<kind, payload>>: str, int, bool, None, a list *)
(* or tuple (a sequence of values), a dict (a function from keys, which    *)
(* are str or int values, to values) or a set (which json cannot encode).  *)
(* A JSON value is a pair as well: jstr, jnum, jnull, jarr, jobj (a        *)
(* function from strings to JSON values).                                  *)

PStr(x) == <<"str", x>>
PInt(n) == <<"int", n>>
PNone == <<"none", 0>>
PBool(b) == <<"bool", b>>
PList(xs) == <<"list", xs>>
PTuple(xs) == <<"tuple", xs>>
PDict(f) == <<"dict", f>>
PSet == <<"set", 0>>
EmptyMap == [k \in {} |-> PNone]

Kind(v) == v[1]
Payload(v) == v[2]

\* the key of a JSON object that json.dump writes for a dict key
KeyText(key) == IF Kind(key) = "str" THEN Payload(key) ELSE ToString(Payload(key))

RECURSIVE Serializable(_)
\* json.dump raises TypeError for a value it cannot encode
Serializable(v) ==
    CASE Kind(v) \in {"str", "int", "bool", "none"} -> TRUE
      [] Kind(v) \in {"list", "tuple"} ->
            \A i \in 1..Len(Payload(v)) : Serializable(Payload(v)[i])
      [] Kind(v) = "dict" ->
            \A k \in DOMAIN Payload(v) :
                Kind(k) \in {"str", "int"} /\ Serializable(Payload(v)[k])
      [] OTHER -> FALSE

RECURSIVE ToJson(_)
\* json.dump: tuples are written as arrays, dict keys as strings
ToJson(v) ==
    CASE Kind(v) = "str" -> <<"jstr", Payload(v)>>
      [] Kind(v) = "int" -> <<"jnum", Payload(v)>>
      [] Kind(v) = "bool" -> <<"jbool", Payload(v)>>
      [] Kind(v) = "none" -> <<"jnull", 0>>
      [] Kind(v) \in {"list", "tuple"} ->
            <<"jarr", [i \in 1..Len(Payload(v)) |-> ToJson(Payload(v)[i])]>>
      [] Kind(v) = "dict" ->
            <<"jobj", [t \in {KeyText(k) : k \in DOMAIN Payload(v)} |->
                         ToJson(Payload(v)[CHOOSE k \in DOMAIN Payload(v) :
                                              KeyText(k) = t])]>>

RECURSIVE FromJson(_)
\* json.load: arrays become lists, objects become dicts with str keys
FromJson(j) ==
    CASE Kind(j) = "jstr" -> PStr(Payload(j))
      [] Kind(j) = "jnum" -> PInt(Payload(j))
      [] Kind(j) = "jbool" -> PBool(Payload(j))
      [] Kind(j) = "jnull" -> PNone
      [] Kind(j) = "jarr" ->
            PList([i \in 1..Len(Payload(j)) |-> FromJson(Payload(j)[i])])
      [] Kind(j) = "jobj" ->
            PDict([k \in {PStr(t) : t \in DOMAIN Payload(j)} |->
                      FromJson(Payload(j)[Payload(k)])])

\* d[key] = value
Put(d, key, value) ==
    [k \in DOMAIN d \cup {key} |-> IF k = key THEN value ELSE d[k]]

\* an element of an update sequence that dict.update accepts: a sequence of
\* two items whose first is hashable.  (The strings and dicts of the model
\* never have two elements, so those always count as malformed here.)
IsPair(item) ==
    /\ Kind(item) = "list"
    /\ Len(Payload(item)) = 2
    /\ Kind(Payload(item)[1]) \in {"str", "int", "bool", "none"}

RECURSIVE UpdateFromSeq(_, _)
\* dict.update(iterable of pairs): pairs are stored one by one; a malformed
\* element raises and leaves the pairs before it stored
UpdateFromSeq(d, items) ==
    IF items = <<>> THEN [map |-> d, raised |-> FALSE]
    ELSE IF IsPair(Head(items))
         THEN UpdateFromSeq(Put(d, Payload(Head(items))[1], Payload(Head(items))[2]),
                            Tail(items))
         ELSE [map |-> d, raised |-> TRUE]

\* mutant: keys already present keep their value (the merge is reversed)
DictUpdate_KeepExisting(d, u) ==
    IF Kind(u) = "dict"
    THEN [map |-> [k \in DOMAIN d \cup DOMAIN Payload(u) |->
                      IF k \in DOMAIN d THEN d[k] ELSE Payload(u)[k]],
          raised |-> FALSE]
    ELSE [map |-> d, raised |-> TRUE]

\* default_config.update(user_config)
DictUpdate(d, u) ==
    CASE Kind(u) = "dict" ->
            [map |-> [k \in DOMAIN d \cup DOMAIN Payload(u) |->
                         IF k \in DOMAIN Payload(u) THEN Payload(u)[k] ELSE d[k]],
             raised |-> FALSE]
      [] Kind(u) = "list" -> UpdateFromSeq(d, Payload(u))
      [] Kind(u) = "str" -> [map |-> d, raised |-> Payload(u) # ""]
      [] OTHER -> [map |-> d, raised |-> TRUE]

\* default_config, lines 239-254
default_config ==
    PDict((PStr("default_mode") :> PStr("dev"))
          @@ (PStr("ports") :> PDict((PStr("dev") :> PInt(3000))
                                     @@ (PStr("prod") :> PInt(3000))
                                     @@ (PStr("redis") :> PInt(6379))))
          @@ (PStr("docker") :>
                 PDict((PStr("image_name") :> PStr("claude-relay-service"))
                       @@ (PStr("container_name") :> PStr("claude-relay"))))
          @@ (PStr("redis") :> PDict((PStr("host") :> PStr("localhost"))
                                     @@ (PStr("port") :> PInt(6379)))))

\* content of start_config.json: a JSON document, text that is not JSON,
\* or a file that cannot be opened for reading
JsonFile(j) == Some(<<"json", j>>)
InvalidFile == Some(<<"invalid", 0>>)
UnreadableFile == Some(<<"unreadable", 0>>)

\* load_start_config: the returned map and whether the warning was logged
load_start_config(file) ==
    IF IsNone(file) THEN [config |-> default_config, warned |-> FALSE]
    ELSE IF Kind(Get(file)) # "json"
    THEN [config |-> default_config, warned |-> TRUE]
    ELSE LET u == DictUpdate(Payload(default_config), FromJson(Payload(Get(file))))
         IN  [config |-> PDict(u.map), warned |-> u.raised]

\* save_start_config(config): io is "error" when makedirs or open fails;
\* a TypeError in json.dump leaves a truncated file behind
save_start_config(file, config, io) ==
    IF io = "error" THEN [ret |-> FALSE, file |-> file]
    ELSE IF ~Serializable(config) THEN [ret |-> FALSE, file |-> InvalidFile]
    ELSE [ret |-> TRUE, file |-> JsonFile(ToJson(config))]


\* config maps handed to save_start_config
StartConfigSpace ==
    {PDict(EmptyMap),
     PDict(PStr("default_mode") :> PStr("prod")),
     PDict(PStr("default_mode") :> PNone),
     PDict(PStr("verbose") :> PBool(TRUE)),
     PDict(PStr("ports") :> PDict(PStr("dev") :> PInt(8080))),
     PDict((PStr("extra") :> PList(<<PInt(1), PStr("x")>>))
           @@ (PStr("redis") :> PDict(PStr("host") :> PStr("db")))),
     PDict(PStr("ports") :> PTuple(<<PInt(3000), PInt(3001)>>)),
     PDict(PStr("redis") :> PDict(PInt(1) :> PStr("x"))),
     PDict(PInt(1) :> PStr("x")),
     PDict(PStr("docker") :> PSet)}

\* contents of start_config.json that load_start_config may find
StartConfigFileSpace ==
    {None, InvalidFile, UnreadableFile,
     JsonFile(ToJson(PDict(PStr("default_mode") :> PStr("prod")))),
     JsonFile(ToJson(PDict(PStr("ports") :> PDict(PStr("dev") :> PInt(8080))))),
     JsonFile(ToJson(PList(<<>>))),
     JsonFile(ToJson(PList(<<PInt(1)>>))),
     JsonFile(ToJson(PList(<<PList(<<PStr("default_mode"), PStr("prod")>>)>>))),
     JsonFile(ToJson(PList(<<PList(<<PStr("default_mode"), PStr("prod")>>),
                             PInt(1)>>))),
     JsonFile(ToJson(PList(<<PList(<<PList(<<>>), PInt(1)>>)>>))),
     JsonFile(ToJson(PStr(""))),
     JsonFile(ToJson(PStr("dev"))),
     JsonFile(ToJson(PInt(5))),
     JsonFile(ToJson(PBool(TRUE))),
     JsonFile(ToJson(PNone))}

InitConfig ==
    /\ Idle
    /\ NoFiles
    /\ platform \in {"posix", "windows"}
    /\ pidFile = None
    /\ procs = [p \in Pids |-> "dead"]
    /\ startConfigFile \in StartConfigFileSpace

\* config_manager.save_start_config(config)
CallSaveStartConfig ==
    /\ pc = "library"
    /\ \E config \in StartConfigSpace, io \in {"ok", "error"} :
          LET r == save_start_config(startConfigFile, config, io)
          IN  /\ startConfigFile' = r.file
              /\ call' = [fn |-> "save_start_config", arg |-> config,
                          ret |-> r.ret]
    /\ UNCHANGED <<platform, launchVars, fileVars, pidFile, procs>>

\* config_manager.load_start_config(); `saved` is the map written by the
\* call just before it, when that was a successful save
CallLoadStartConfig ==
    /\ pc = "library"
    /\ LET r == load_start_config(startConfigFile)
       IN  call' = [fn |-> "load_start_config", file |-> startConfigFile,
                    ret |-> r.config, warned |-> r.warned,
                    saved |-> IF call.fn = "save_start_config" /\ call.ret
                              THEN Some(call.arg) ELSE None]
    /\ UNCHANGED <<platform, launchVars, fileVars, pidFile, procs,
                   startConfigFile>>

NextConfig ==
    \/ CallSaveStartConfig
    \/ CallLoadStartConfig

SpecConfig == InitConfig /\ [][NextConfig]_vars

\* the loaded map `loaded` is the defaults overlaid, key by key at the top
\* level only, with the saved map `saved_map`
ShallowOverlay(loaded, saved_map) ==
    /\ DOMAIN Payload(default_config) \subseteq DOMAIN Payload(loaded)
    /\ \A k \in DOMAIN Payload(saved_map) :
          /\ k \in DOMAIN Payload(loaded)
          /\ Payload(loaded)[k] = Payload(saved_map)[k]
    /\ \A k \in DOMAIN Payload(default_config) \ DOMAIN Payload(saved_map) :
          Payload(loaded)[k] = Payload(default_config)[k]

RECURSIVE JsonNative(_)
\* a value json.dump / json.load give back unchanged: no tuple, no dict key
\* that is not a str
JsonNative(v) ==
    CASE Kind(v) \in {"str", "int", "bool", "none"} -> TRUE
      [] Kind(v) = "list" ->
            \A i \in 1..Len(Payload(v)) : JsonNative(Payload(v)[i])
      [] Kind(v) = "dict" ->
            \A k \in DOMAIN Payload(v) :
                Kind(k) = "str" /\ JsonNative(Payload(v)[k])
      [] OTHER -> FALSE

LoadedAfterSave ==
    /\ call.fn = "load_start_config"
    /\ ~IsNone(call.saved)

\* C9 (as stated): for every config map C, load_start_config after a
\* successful save_start_config(C) returns the defaults with every
\* top-level key of C holding exactly the value saved.
C9_RoundTripEveryConfig ==
    LoadedAfterSave => ShallowOverlay(call.ret, Get(call.saved))

\* C9 (amended): the same for every config map C made of strings, integers,
\* null, lists and string-keyed maps only.
C9_RoundTripJsonNative ==
    (LoadedAfterSave /\ JsonNative(Get(call.saved)))
        => /\ ShallowOverlay(call.ret, Get(call.saved))
           /\ ~call.warned

\* a saved "ports" map without the default's "prod" and "redis" entries
\* replaces the whole default "ports" value
C9_Witness ==
    /\ LoadedAfterSave
    /\ Get(call.saved) = PDict(PStr("ports") :> PDict(PStr("dev") :> PInt(8080)))
    /\ Payload(call.ret)[PStr("ports")] = PDict(PStr("dev") :> PInt(8080))
    /\ Payload(call.ret)[PStr("redis")] = Payload(default_config)[PStr("redis")]

\* C10: whenever load_start_config logs its warning (reading, parsing or
\* merging the file raised), the map it returns is exactly the defaults.
C10_DefaultsOnError ==
    (call.fn = "load_start_config" /\ call.warned) => call.ret = default_config

----------------------------------------------------------------------------
(* SystemChecker probes and check_redis_availability (SpecProbe)           *)

MaxMajorDigits == 3

VersionDigits == {"0", "1", "7", "8", "9"}

\* MAJOR: every numeral of at most MaxMajorDigits of the digits above
Majors == UNION {[1..n -> VersionDigits] : n \in 1..MaxMajorDigits}

\* MINOR and PATCH
MinorPatch == {<<"0">>, <<"9">>, <<"2", "0">>}

\* `node --version` prints "v" MAJOR "." MINOR "." PATCH and a line end
VersionText(v) ==
    <<"v">> \o v.major \o <<".">> \o v.minor \o <<".">> \o v.patch

VersionSpace == [major : Majors, minor : MinorPatch, patch : MinorPatch]

LineEnds == {<<>>, <<"LF">>}

InitProbe ==
    /\ Idle
    /\ platform \in {"posix", "windows"}
    /\ envFile \in EnvFileSpace
    /\ envExample = None
    /\ configFile = None
    /\ configExample = None
    /\ dirs = {}
    /\ pidFile = None
    /\ procs = [p \in Pids |-> "dead"]
    /\ startConfigFile = None

\* the probes keep no state between calls: one call per behaviour
ProbeIdle ==
    /\ pc = "library"
    /\ call = NoCall

probeFrame == <<platform, launchVars, fileVars, pidFile, procs, startConfigFile>>

\* system_checker.check_node_version() when `node --version` exits with 0
\* and prints a version
CallCheckNodeVersion ==
    /\ ProbeIdle
    /\ \E v \in VersionSpace, nl \in LineEnds :
          LET out == ToolRun(FALSE, 0, VersionText(v) \o nl)
          IN  call' = [fn |-> "check_node_version", out |-> out,
                       version |-> Some(v), ret |-> check_node_version(out),
                       raised |-> FALSE]
    /\ UNCHANGED probeFrame

\* system_checker.check_node_version() for the other outcomes of the tool
CallCheckNodeVersionOther ==
    /\ ProbeIdle
    /\ \E out \in NodeRuns \cup {ToolRun(FALSE, 1, <<"v", "2", "0", ".", "1", ".", "0">>),
                                 ToolRun(FALSE, 0, <<"n", "o", "d", "e">>)} :
          call' = [fn |-> "check_node_version", out |-> out,
                   version |-> None, ret |-> check_node_version(out),
                   raised |-> FALSE]
    /\ UNCHANGED probeFrame

\* check_npm_installed(), check_docker_installed(),
\* check_docker_compose_installed()
CallCheckToolInstalled ==
    /\ ProbeIdle
    /\ \E fn \in {"check_npm_installed", "check_docker_installed",
                  "check_docker_compose_installed"}, out \in ToolRuns :
          call' = [fn |-> fn, out |-> out, ret |-> CheckToolInstalled(out),
                   raised |-> FALSE]
    /\ UNCHANGED probeFrame

\* system_checker.check_port_available(port)
CallCheckPortAvailable ==
    /\ ProbeIdle
    /\ \E conn \in ConnectOutcomes :
          call' = [fn |-> "check_port_available", conn |-> conn,
                   ret |-> check_port_available(conn), raised |-> FALSE]
    /\ UNCHANGED probeFrame

\* system_checker.check_redis_connection(host, port)
CallCheckRedisConnection ==
    /\ ProbeIdle
    /\ \E conn \in ConnectOutcomes :
          call' = [fn |-> "check_redis_connection", conn |-> conn,
                   ret |-> check_redis_connection(conn), raised |-> FALSE]
    /\ UNCHANGED probeFrame

\* service_starter.check_redis_availability()
CallCheckRedisAvailability ==
    /\ ProbeIdle
    /\ \E conn \in ConnectOutcomes :
          LET r == check_redis_availability(envFile, conn)
          IN  call' = [fn |-> "check_redis_availability", conn |-> conn,
                       ret |-> (r = "ok"), raised |-> (r = "raise")]
    /\ UNCHANGED probeFrame

NextProbe ==
    \/ CallCheckNodeVersion
    \/ CallCheckNodeVersionOther
    \/ CallCheckToolInstalled
    \/ CallCheckPortAvailable
    \/ CallCheckRedisConnection
    \/ CallCheckRedisAvailability

SpecProbe == InitProbe /\ [][NextProbe]_vars

\* the call was check_node_version on an output vMAJOR.MINOR.PATCH of a
\* `node --version` that exited with 0
CheckedVersion ==
    /\ call.fn = "check_node_version"
    /\ ~IsNone(call.version)

\* C11: for a version vMAJOR.MINOR.PATCH printed by a `node --version` that
\* exits with 0, check_node_version succeeds iff MAJOR >= 18, whatever
\* MINOR and PATCH are; when it fails, the detail names the required
\* version and the actual one.
C11_NodeVersionGate ==
    CheckedVersion
        => LET v == Get(call.version)
           IN  /\ call.ret.ok <=> DecimalValue(v.major) >= 18
               /\ ~call.ret.ok
                     => call.ret.detail
                          = <<"need >= 18.0.0, current: ">> \o VersionText(v)

\* 17.20.9 is refused although MINOR is above 18
C11_Witness ==
    /\ CheckedVersion
    /\ Get(call.version) = [major |-> <<"1", "7">>, minor |-> <<"2", "0">>,
                            patch |-> <<"9">>]
    /\ ~call.ret.ok
    /\ call.ret.detail = <<"need >= 18.0.0, current: ",
                           "v", "1", "7", ".", "2", "0", ".", "9">>

Probes ==
    {"check_node_version", "check_npm_installed", "check_docker_installed",
     "check_docker_compose_installed", "check_port_available",
     "check_redis_connection", "check_redis_availability"}

\* C12: no probe raises to its caller, whatever the tool, the socket or the
\* .env content does: every failure comes back as a false result.
C12_ProbesNeverRaise ==
    call.fn \in Probes => ~call.raised

----------------------------------------------------------------------------
(* ProcessManager.kill_process (specification SpecKill)                    *)
(*                                                                         *)
(* The call is followed system call by system call, so that the target     *)
(* may end on its own between any two of them.  A pid names one process    *)
(* for the length of the call.                                             *)

InitKill ==
    /\ Idle
    /\ NoFiles
    /\ platform \in {"posix", "windows"}
    /\ pidFile = None
    /\ procs \in [Pids -> ProcStates]
    /\ startConfigFile = None

killFrame == <<platform, args, current_process, child, childRc, terminateCalls,
               exitCode, exitBy, fileVars, pidFile, startConfigFile>>

\* os.kill(pid, sig): "sent", or "raise" (ProcessLookupError when there is
\* no such process, PermissionError when it belongs to another user)
os_kill(pid, table) == IF table[pid] = "own" THEN "sent" ELSE "raise"

Returned(pid, ret) == [fn |-> "kill_process", pid |-> pid, ret |-> ret]

\* kill_process, lines 331-336: taskkill on Windows (its exit status is not
\* read), else os.kill(pid, 15)
kill_process_term ==
    /\ pc = "library"
    /\ call = NoCall
    /\ \E pid \in Pids, out \in RunOutcomes :
          IF platform = "windows"
          THEN /\ steps' = Append(steps, Step("taskkill /F /PID", out))
               /\ call' = Returned(pid, IF out = "error" THEN "false" ELSE "true")
               /\ pc' = "returned"
          ELSE LET k == os_kill(pid, procs)
               IN  /\ steps' = Append(steps, Step("os.kill 15", k))
                   /\ call' = Returned(pid, IF k = "raise" THEN "false" ELSE "pending")
                   /\ pc' = IF k = "raise" THEN "returned" ELSE "kill_sleep"
    /\ UNCHANGED <<killFrame, procs>>

\* the target ends, because of the SIGTERM or on its own
ProcessEnds ==
    /\ pc \in {"kill_sleep", "kill_kill"}
    /\ procs[call.pid] # "dead"
    /\ procs' = [procs EXCEPT ![call.pid] = "dead"]
    /\ UNCHANGED <<killFrame, pc, steps, call>>

\* mutant: SIGKILL follows without looking at the re-check
kill_process_recheck_AlwaysKill ==
    /\ pc = "kill_sleep"
    /\ steps' = Append(steps, Step("is_process_running", procs[call.pid]))
    /\ pc' = "kill_kill"
    /\ UNCHANGED <<killFrame, procs, call>>

\* kill_process, lines 337-338: time.sleep(2) is over, is_process_running;
\* the step logged carries what the process table holds at that moment
kill_process_recheck ==
    /\ pc = "kill_sleep"
    /\ steps' = Append(steps, Step("is_process_running", procs[call.pid]))
    /\ IF is_process_running(call.pid, procs, platform)
       THEN /\ pc' = "kill_kill"
            /\ call' = call
       ELSE /\ pc' = "returned"
            /\ call' = Returned(call.pid, "true")
    /\ UNCHANGED <<killFrame, procs>>

\* kill_process, lines 339-343: os.kill(pid, 9), which no process survives
kill_process_kill ==
    /\ pc = "kill_kill"
    /\ LET k == os_kill(call.pid, procs)
       IN  /\ steps' = Append(steps, Step("os.kill 9", k))
           /\ call' = Returned(call.pid, IF k = "raise" THEN "false" ELSE "true")
           /\ procs' = [procs EXCEPT ![call.pid] = "dead"]
    /\ pc' = "returned"
    /\ UNCHANGED killFrame

NextKill ==
    \/ kill_process_term
    \/ ProcessEnds
    \/ kill_process_recheck
    \/ kill_process_kill

SpecKill == InitKill /\ [][NextKill]_vars

\* the steps of the POSIX branch, in the order the claim gives them
KillOrder == <<"os.kill 15", "is_process_running", "os.kill 9">>

\* C15: on POSIX kill_process sends SIGTERM, then (after the grace period)
\* re-checks liveness, then sends SIGKILL iff the process was alive at the
\* re-check, never SIGKILL before SIGTERM; it returns failure when a step
\* raised and success otherwise.
C15_KillOrder ==
    (platform = "posix" /\ call.fn = "kill_process")
        => /\ Len(steps) <= Len(KillOrder)
           /\ \A i \in 1..Len(steps) : steps[i].op = KillOrder[i]
           /\ pc = "returned"
                 => /\ Did("os.kill 9") <=> (\E i \in 1..Len(steps) :
                                      /\ steps[i].op = "is_process_running"
                                      /\ steps[i].res # "dead")
                    /\ call.ret = (IF \E i \in 1..Len(steps) : steps[i].res = "raise"
                                   THEN "false" ELSE "true")

\* the target ignored SIGTERM, was found alive and was sent SIGKILL
C15_Witness ==
    /\ platform = "posix"
    /\ pc = "returned"
    /\ steps = <<Step("os.kill 15", "sent"), Step("is_process_running", "own"),
                 Step("os.kill 9", "sent")>>
    /\ call.ret = "true"

----------------------------------------------------------------------------
(* ServiceStarter.prepare_environment (specification SpecPrepare)          *)

InitPrepare ==
    /\ Idle
    /\ platform \in {"posix", "windows"}
    /\ envFile \in {None, Some(<<"a">>)}
    /\ envExample \in TemplateSpace
    /\ configFile \in ConfigSpace
    /\ configExample \in ConfigSpace \cup {Some(<<"c", "CR", "LF">>)}
    /\ dirs \in {{}, {"logs"}}
    /\ pidFile = None
    /\ procs = [p \in Pids |-> "dead"]
    /\ startConfigFile = None

\* service_starter.prepare_environment(); the call record keeps the files
\* and directories found
CallPrepareEnvironment ==
    /\ pc = "library"
    /\ LET r == prepare_environment(envFile, envExample, configFile,
                                   configExample, dirs, platform)
       IN  /\ envFile' = r.env
           /\ configFile' = r.cfg
           /\ dirs' = r.dirs
           /\ call' = [fn |-> "prepare_environment", ret |-> r.ret,
                       env |-> envFile, cfg |-> configFile, dirs |-> dirs]
    /\ UNCHANGED <<platform, launchVars, envExample, configExample, pidFile,
                   procs, startConfigFile>>

NextPrepare == CallPrepareEnvironment

SpecPrepare == InitPrepare /\ [][NextPrepare]_vars

\* C18: prepare_environment, when .env and config.js are both absent and
\* both templates exist, returns success and leaves both files with the
\* content of their templates and the directories logs, data and temp;
\* when a target is absent and its template is missing it returns failure
\* and creates no directory.
C18_PrepareEnvironment ==
    call.fn = "prepare_environment"
        => /\ (IsNone(call.env) /\ IsNone(call.cfg)
                  /\ ~IsNone(envExample) /\ ~IsNone(configExample))
                 => /\ call.ret = "true"
                    /\ envFile = envExample
                    /\ configFile = configExample
                    /\ RequiredDirs \subseteq dirs
           /\ ((IsNone(call.env) /\ IsNone(envExample))
                  \/ (IsNone(call.cfg) /\ IsNone(configExample)))
                 => /\ call.ret = "false"
                    /\ dirs = call.dirs

----------------------------------------------------------------------------
(* ConfigManager.get_env_value (specification SpecEnv)                     *)

MaxEnvLines == 2

\* lines of a .env file, without their line end
EnvLines ==
    {<<>>,
     <<"K", "=", "v">>,
     <<"K", "=", "w">>,
     <<"K", "2", "=", "x">>,
     <<" ", "K", "=", "v">>,
     <<"K", "=", "v", " ">>,
     <<"K", "=", "a", "=", "b">>,
     <<"K">>,
     <<"K", "=", "v", "CR">>,
     <<"K", "=", "BAD">>}

RECURSIVE JoinLines(_)
\* the file made of these lines, each ended by a line feed
JoinLines(ls) ==
    IF ls = <<>> THEN <<>> ELSE Head(ls) \o <<"LF">> \o JoinLines(Tail(ls))

EnvTexts == {JoinLines(ls) : ls \in UNION {[1..n -> EnvLines] : n \in 0..MaxEnvLines}}

\* keys asked for: K, K2 (K is a prefix of it), an absent key, and a key
\* that holds an equals sign
EnvKeys == {<<"K">>, <<"K", "2">>, <<"Z">>, <<"K", "=", "a">>}

InitEnv ==
    /\ Idle
    /\ platform \in {"posix", "windows"}
    /\ envFile \in {None} \cup {Some(t) : t \in EnvTexts}
    /\ envExample = None
    /\ configFile = None
    /\ configExample = None
    /\ dirs = {}
    /\ pidFile = None
    /\ procs = [p \in Pids |-> "dead"]
    /\ startConfigFile = None

\* config_manager.get_env_value(key, default)
CallGetEnvValue ==
    /\ pc = "library"
    /\ \E key \in EnvKeys :
          call' = [fn |-> "get_env_value", key |-> key, default |-> <<"d">>,
                   ret |-> get_env_value(envFile, key, <<"d">>)]
    /\ UNCHANGED <<platform, launchVars, fileVars, pidFile, procs,
                   startConfigFile>>

NextEnv == CallGetEnvValue

SpecEnv == InitEnv /\ [][NextEnv]_vars

\* the lines of the .env file, line ends removed
LinesOf(file) == SplitLines(UniversalNewlines(Get(file)))

\* the text of line after its first n symbols
After(line, n) == SubSeq(line, n + 1, Len(line))

\* what the lookup returns when the lines are compared after Clean is
\* applied to each
Lookup(Clean(_)) ==
    LET want == call.key \o <<"=">>
        ls == LinesOf(envFile)
        hits == {i \in 1..Len(ls) : StartsWith(Clean(ls[i]), want)}
    IN  IF hits = {} THEN call.default
        ELSE After(Clean(ls[CHOOSE i \in hits : \A j \in hits : i <= j]),
                   Len(want))

Verbatim(line) == line

\* C20 (as stated): get_env_value returns the rest, after KEY=, of the
\* first line of .env that begins with KEY=, and the default when the file
\* is absent or no line begins with KEY=.
C20_FirstLineBeginningWithKey ==
    call.fn = "get_env_value"
        => call.ret = (IF IsNone(envFile) THEN call.default ELSE Lookup(Verbatim))

\* C20 (amended): for a key without an equals sign, the lines are compared,
\* and the rest is taken, after leading and trailing whitespace is stripped
\* from each line; a file that cannot be read as UTF-8 text gives the
\* default.
C20_FirstStrippedLine ==
    (call.fn = "get_env_value" /\ FirstIndex(call.key, "=") = 0)
        => call.ret = (IF IsNone(envFile) \/ ~Decodable(Get(envFile))
                       THEN call.default ELSE Lookup(Strip))

\* an indented first match wins over a later one; K does not match K2=
C20_Witness ==
    /\ call.fn = "get_env_value"
    /\ call.key = <<"K">>
    /\ envFile = Some(<<" ", "K", "=", "v", "LF", "K", "=", "w", "LF">>)
    /\ call.ret = <<"v">>

----------------------------------------------------------------------------
(* ProcessManager.get_running_pid, step by step (specification SpecRace)   *)
(*                                                                         *)
(* Two invocations of the launcher call get_running_pid on the same PID    *)
(* file, which is read and removed without any lock.  Each call is cut at  *)
(* its system calls: exists(), open()+read(), the liveness probe, and      *)
(* unlink().  A new service instance may start meanwhile and write its pid *)
(* to the file.  The processes are those of the invoking user (the probe   *)
(* of another user's process is the subject of C7).                        *)

Callers == {1, 2}

Fresh == [pid |-> None, ret |-> None, raised |-> FALSE]

InitRace ==
    /\ pc = [c \in Callers |-> "exists"]
    /\ call = [c \in Callers |-> Fresh]
    /\ args = Args("none", DefaultPort, FALSE, FALSE, "")
    /\ current_process = None
    /\ child = "none"
    /\ childRc = -1
    /\ terminateCalls = 0
    /\ steps = <<>>
    /\ exitCode = -1
    /\ exitBy = "none"
    /\ NoFiles
    /\ platform \in {"posix", "windows"}
    /\ pidFile \in PidFileSpace
    /\ procs \in [Pids -> {"dead", "own"}]
    /\ startConfigFile = None

raceFrame == <<platform, args, current_process, child, childRc, terminateCalls,
               exitCode, exitBy, fileVars, startConfigFile>>

\* the call of caller c ends: a return value, or an exception that leaves it
Ends(c, ret, raised) ==
    /\ pc' = [pc EXCEPT ![c] = "done"]
    /\ call' = [call EXCEPT ![c].ret = ret, ![c].raised = raised]

\* line 316: self.pid_file.exists()
get_running_pid_exists(c) ==
    /\ pc[c] = "exists"
    /\ IF IsNone(pidFile)
       THEN /\ steps' = Append(steps, Step("exists", "false"))
            /\ Ends(c, None, FALSE)
       ELSE /\ steps' = Append(steps, Step("exists", "true"))
            /\ pc' = [pc EXCEPT ![c] = "read"]
            /\ call' = call
    /\ UNCHANGED <<raceFrame, pidFile, procs>>

\* lines 318-319: open(), read(), int(); FileNotFoundError and ValueError
\* (UnicodeDecodeError is one) are caught at line 325
get_running_pid_read(c) ==
    /\ pc[c] = "read"
    /\ IF IsNone(pidFile)
       THEN /\ steps' = Append(steps, Step("read", "FileNotFoundError"))
            /\ Ends(c, None, FALSE)
       ELSE IF ~Decodable(Get(pidFile)) \/ ~IntParses(Get(pidFile))
       THEN /\ steps' = Append(steps, Step("read", "ValueError"))
            /\ Ends(c, None, FALSE)
       ELSE /\ steps' = Append(steps, Step("read", "pid"))
            /\ pc' = [pc EXCEPT ![c] = "check"]
            /\ call' = [call EXCEPT ![c].pid = Some(IntValue(Get(pidFile)))]
    /\ UNCHANGED <<raceFrame, pidFile, procs>>

\* lines 320-321: is_process_running(pid) of the pid that was read
get_running_pid_check(c) ==
    /\ pc[c] = "check"
    /\ IF is_process_running(Get(call[c].pid), procs, platform)
       THEN /\ steps' = Append(steps, Step("is_process_running", "true"))
            /\ Ends(c, call[c].pid, FALSE)
       ELSE /\ steps' = Append(steps, Step("is_process_running", "false"))
            /\ pc' = [pc EXCEPT ![c] = "unlink"]
            /\ call' = call
    /\ UNCHANGED <<raceFrame, pidFile, procs>>

\* line 324: self.pid_file.unlink(), of whatever the path names now.  On
\* Windows the file is still open at line 318 and unlink raises
\* PermissionError, which line 325 does not catch; elsewhere a file that is
\* gone raises FileNotFoundError, which it does.
get_running_pid_unlink(c) ==
    /\ pc[c] = "unlink"
    /\ IF IsNone(pidFile)
       THEN /\ steps' = Append(steps, Step("unlink", "FileNotFoundError"))
            /\ Ends(c, None, FALSE)
            /\ pidFile' = pidFile
       ELSE IF platform = "windows"
       THEN /\ steps' = Append(steps, Step("unlink", "PermissionError"))
            /\ Ends(c, None, TRUE)
            /\ pidFile' = pidFile
       ELSE /\ steps' = Append(steps, Step("unlink", "removed"))
            /\ Ends(c, None, FALSE)
            /\ pidFile' = None
    /\ UNCHANGED <<raceFrame, procs>>

\* the decimal text of a pid of Pids
PidText(pid) == IF pid = 7 THEN <<"7">> ELSE <<"4", "2">>

\* a new service instance starts and records its own pid (once)
NewInstanceWrites ==
    /\ ~Did("write")
    /\ \E pid \in Pids :
          /\ procs[pid] = "dead"
          /\ procs' = [procs EXCEPT ![pid] = "own"]
          /\ pidFile' = Some(PidText(pid))
    /\ steps' = Append(steps, Step("write", "written"))
    /\ UNCHANGED <<raceFrame, pc, call>>

NextRace ==
    \/ \E c \in Callers : get_running_pid_exists(c)
    \/ \E c \in Callers : get_running_pid_read(c)
    \/ \E c \in Callers : get_running_pid_check(c)
    \/ \E c \in Callers : get_running_pid_unlink(c)
    \/ NewInstanceWrites

SpecRace == InitRace /\ [][NextRace]_vars

\* C22: while another invocation replaces the PID file, get_running_pid
\* removes the PID file only when the pid the file holds at the moment of
\* removal belongs to a dead process; the record of a live process is never
\* removed.
C22_RemovesOnlyDeadRecord ==
    [][(~IsNone(pidFile) /\ IsNone(pidFile'))
          => (HoldsPid(pidFile) /\ procs[PidIn(pidFile)] = "dead")]_vars

\* some call read a record whose process is dead, and nothing was written
ReadStale ==
    /\ ~Did("write")
    /\ \E c \in Callers :
          ~IsNone(call[c].pid) /\ procs[Get(call[c].pid)] = "dead"

\* C23: two concurrent calls of get_running_pid on the same stale PID file
\* both return none without raising, whatever the order of their steps, and
\* the PID file is absent afterwards.
C23_ConcurrentHealing ==
    (ReadStale /\ \A c \in Callers : pc[c] = "done")
        => /\ \A c \in Callers : call[c].ret = None /\ ~call[c].raised
           /\ IsNone(pidFile)

\* C23 where unlink of an open file is allowed (holds)
C23_ConcurrentHealingPosix ==
    platform = "posix" => C23_ConcurrentHealing

\* both calls reached unlink() on the same stale file
C23_PosixWitness ==
    /\ platform = "posix"
    /\ ReadStale
    /\ \A c \in Callers : pc[c] = "done"
    /\ DidWith("unlink", "removed")
    /\ DidWith("unlink", "FileNotFoundError")

====
